---- MODULE Spec2Model ----
(***************************************************************************)
(* Tariff & cost accounting engine of homey-energy-tariff:                 *)
(*   src/app.js                        ElectricityTariffApp                *)
(*   src/drivers/tariff-meter/device.js TariffMeterDevice                  *)
(*                                                                         *)
(* Units.  The clock `now` counts local minutes since Jan 1 00:00 of a     *)
(* non-leap year (Date.now() is in ms; everything the engine derives from  *)
(* it is a calendar day, an hour and a minute, or a difference of two      *)
(* readings).  Power is in W, a rate in 1/1000 currency per kWh, and a     *)
(* cost in W * min * (1/1000 currency per kWh): CostUnitsPerCurrency of    *)
(* them make one currency unit, so the code's                              *)
(*   (totalPower / 1000) * timeDelta[h] * rate                             *)
(* is the exact integer totalPower * timeDelta[min] * rate[1/1000].        *)
(* Floating-point rounding is not modelled.                                *)
(*                                                                         *)
(* A JavaScript string is the sequence of its character codes, null or     *)
(* undefined (and the empty string, which `||` treats alike) is <<>>, and  *)
(* an optional number is <<>> or <<n>>.                                    *)
(***************************************************************************)
EXTENDS Integers, Sequences, FiniteSets, TLC

VARIABLES
  now,                 \* the host's local clock, in minutes
  settings,            \* homey.settings: dayRate, nightRate, seasons, currency
  \* ---- ElectricityTariffApp (src/app.js)
  apiReady,            \* app.apiReady
  apiRetry,            \* the delays (ms) of the pending initHomeyAPI calls: <<0>> the first call, in flight
  powerDevices,        \* app.powerDevices: sequence of [id, name, power]
  currentTariff,       \* app.currentTariff
  tariffCheckInterval, \* the tariff monitor's interval timer is set
  history,             \* app.history
  \* ---- TariffMeterDevice (src/drivers/tariff-meter/device.js)
  devState,            \* "constructed" | "running" | "deleted"
  lastTariff,          \* device.lastTariff ("null" before the first refresh)
  tariffChangesToday,
  lastResetDate,       \* toDateString() of the last reset: a calendar day
  costToday,
  lastCostUpdate,
  devicePowers,
  updateInterval,      \* the periodic tick's interval timer is set
  caps,                \* the capability values last written
  tickPc,              \* periodic tick: "idle" | "refreshed" | "costed"
  tickLocals,          \* the locals of the periodic tick's updateCostTracking
  initPc,              \* delayed initial cost tick: "none" | "pending" | "costed" | "done"
  initLocals,
  \* ---- what the engine sent out
  tariffEvents,        \* every tariff-changed event {previous_tariff, new_tariff, rate} as
                       \* the event sink got it: at what time and from whom
  emitted,             \* the alert events of the last completed cost tick
  \* ---- history variables (not program state)
  appendLog,           \* every sample ever handed to recordHistory, in order
  changes              \* counters bounding the run, the times the interval timers last
                       \* fired, and the number of transitions of the resolved tariff

vars == <<now, settings, apiReady, apiRetry, powerDevices, currentTariff,
          tariffCheckInterval, history, devState, lastTariff, tariffChangesToday,
          lastResetDate, costToday, lastCostUpdate, devicePowers, updateInterval,
          caps, tickPc, tickLocals, initPc, initLocals, tariffEvents, emitted,
          appendLog, changes>>

----------------------------------------------------------------------------
(* JavaScript values *)

Null == <<>>

\* x || d for an optional number: null, undefined and 0 are falsy.
OrNumber(x, d) == IF x = Null \/ x[1] = 0 THEN d ELSE x[1]

\* s || d for a string: null, undefined and "" are falsy.
OrString(s, d) == IF s = Null THEN d ELSE s

DigitChar(d) == 48 + d
ColonChar == 48 + 10

\* String(n) for 0 <= n < 100
StringOf(n) == IF n < 10 THEN <<DigitChar(n)>> ELSE <<DigitChar(n \div 10), DigitChar(n % 10)>>

\* s.padStart(2, '0')
PadStart2(s) == IF Len(s) < 2 THEN <<DigitChar(0)>> \o s ELSE s

\* `${hh}:${mm}` with both parts padded
ClockString(h, m) == PadStart2(StringOf(h)) \o <<ColonChar>> \o PadStart2(StringOf(m))

\* a < b on strings: by code unit, a proper prefix first
RECURSIVE StrLess(_, _)
StrLess(a, b) ==
  IF b = <<>> THEN FALSE
  ELSE IF a = <<>> THEN TRUE
  ELSE IF a[1] < b[1] THEN TRUE
  ELSE IF a[1] > b[1] THEN FALSE
  ELSE StrLess(Tail(a), Tail(b))

StrGeq(a, b) == ~StrLess(a, b)

\* Number(s) for a string of decimal digits (Number("") is 0)
RECURSIVE NumberOf(_)
NumberOf(s) ==
  IF s = <<>> THEN 0
  ELSE NumberOf(SubSeq(s, 1, Len(s) - 1)) * 10 + (s[Len(s)] - DigitChar(0))

\* s.split(':').map(Number) for a string with exactly one colon
ColonAt(s) == CHOOSE i \in 1..Len(s) : s[i] = ColonChar
SplitColon(s) ==
  <<NumberOf(SubSeq(s, 1, ColonAt(s) - 1)), NumberOf(SubSeq(s, ColonAt(s) + 1, Len(s)))>>

----------------------------------------------------------------------------
(* The calendar of the local clock *)

MinutesPerDay == 24 * 60

DaysInMonth == <<31, 28, 31, 30, 31, 30, 31, 31, 30, 31, 30, 31>>
DaysPerYear == 52 * 7 + 1

RECURSIVE MonthDay(_, _)
MonthDay(doy, m) ==
  IF doy < DaysInMonth[m] THEN <<m, doy + 1>> ELSE MonthDay(doy - DaysInMonth[m], m + 1)

\* new Date(t).toDateString(): the calendar day, year included
DateString(t) == t \div MinutesPerDay
\* getMonth() + 1, getDate(), getHours(), getMinutes()
MonthOf(t) == MonthDay(DateString(t) % DaysPerYear, 1)[1]
DateOf(t) == MonthDay(DateString(t) % DaysPerYear, 1)[2]
HoursOf(t) == (t % MinutesPerDay) \div 60
MinutesOf(t) == t % 60
\* the first minute of day d of month m
TimeAt(m, d, hh, mm) ==
  LET doy == CHOOSE k \in 0..(DaysPerYear - 1) : MonthDay(k, 1) = <<m, d>>
  IN  doy * MinutesPerDay + hh * 60 + mm

----------------------------------------------------------------------------
(* Settings and the resolvers of the meter device *)

DefaultDayStart == ClockString(6, 0)
DefaultDayEnd == ClockString(22, 0)
DefaultDayRate == 120
DefaultNightRate == 60

\* homey.settings.get('seasons') || []
SeasonsOf(st) == IF st.seasons = Null THEN <<>> ELSE st.seasons[1]

\* a faulty variant: no branch for a season that crosses the year boundary
isDateInSeason_SameYear(month, day, season) ==
  (month > season.startMonth \/ (month = season.startMonth /\ day >= season.startDay))
  /\ (month < season.endMonth \/ (month = season.endMonth /\ day <= season.endDay))

\* device.js isDateInSeason
isDateInSeason(month, day, season) ==
  IF season.startMonth > season.endMonth
  THEN (month > season.startMonth \/ (month = season.startMonth /\ day >= season.startDay))
       \/ (month < season.endMonth \/ (month = season.endMonth /\ day <= season.endDay))
  ELSE (month > season.startMonth \/ (month = season.startMonth /\ day >= season.startDay))
       /\ (month < season.endMonth \/ (month = season.endMonth /\ day <= season.endDay))

\* the for loop of getCurrentSeason from index i: <<>> when it runs off the list
RECURSIVE SeasonLoop(_, _, _, _)
SeasonLoop(month, day, seasons, i) ==
  IF i > Len(seasons) THEN Null
  ELSE IF isDateInSeason(month, day, seasons[i]) THEN <<seasons[i]>>
  ELSE SeasonLoop(month, day, seasons, i + 1)

\* a faulty variant: null when no season matches
getCurrentSeason_NoFallback(t, st) == SeasonLoop(MonthOf(t), DateOf(t), SeasonsOf(st), 1)

\* device.js getCurrentSeason: <<>> is null, <<s>> the season
getCurrentSeason(t, st) ==
  LET seasons == SeasonsOf(st)
      found == SeasonLoop(MonthOf(t), DateOf(t), seasons, 1)
  IN  IF found # Null THEN found
      ELSE IF seasons # <<>> THEN <<seasons[1]>>
      ELSE Null

\* a faulty variant: the window includes dayEnd
getCurrentTariff_InclusiveEnd(t, season) ==
  IF season = Null THEN "day"
  ELSE LET currentTime == ClockString(HoursOf(t), MinutesOf(t))
       IN  IF StrGeq(currentTime, OrString(season[1].dayStart, DefaultDayStart))
              /\ ~StrLess(OrString(season[1].dayEnd, DefaultDayEnd), currentTime)
           THEN "day"
           ELSE "night"

\* device.js getCurrentTariff
getCurrentTariff(t, season) ==
  IF season = Null THEN "day"
  ELSE LET currentTime == ClockString(HoursOf(t), MinutesOf(t))
       IN  IF StrGeq(currentTime, OrString(season[1].dayStart, DefaultDayStart))
              /\ StrLess(currentTime, OrString(season[1].dayEnd, DefaultDayEnd))
           THEN "day"
           ELSE "night"

\* device.js getCurrentRate
getCurrentRate(st, tariff) ==
  IF tariff = "day" THEN OrNumber(st.dayRate, DefaultDayRate)
  ELSE OrNumber(st.nightRate, DefaultNightRate)

\* hour * 60 + minute of an "HH:MM" setting
TotalMinutes(s) == SplitColon(s)[1] * 60 + SplitColon(s)[2]
DayStartTotalMinutes(season) == TotalMinutes(OrString(season[1].dayStart, DefaultDayStart))
DayEndTotalMinutes(season) == TotalMinutes(OrString(season[1].dayEnd, DefaultDayEnd))
CurrentTotalMinutes(t) == HoursOf(t) * 60 + MinutesOf(t)

\* a faulty variant: at night the time to midnight, without the morning
getMinutesUntilChange_ToMidnight(t, season, currentTariff_) ==
  IF season = Null THEN 0
  ELSE IF currentTariff_ = "day" THEN DayEndTotalMinutes(season) - CurrentTotalMinutes(t)
  ELSE IF CurrentTotalMinutes(t) >= DayEndTotalMinutes(season)
       THEN 24 * 60 - CurrentTotalMinutes(t)
       ELSE DayStartTotalMinutes(season) - CurrentTotalMinutes(t)

\* device.js getMinutesUntilChange
getMinutesUntilChange(t, season, currentTariff_) ==
  IF season = Null THEN 0
  ELSE IF currentTariff_ = "day" THEN DayEndTotalMinutes(season) - CurrentTotalMinutes(t)
  ELSE IF CurrentTotalMinutes(t) >= DayEndTotalMinutes(season)
       THEN (24 * 60 - CurrentTotalMinutes(t)) + DayStartTotalMinutes(season)
       ELSE DayStartTotalMinutes(season) - CurrentTotalMinutes(t)

\* device.js getPeakHoursRemaining, in minutes (the code divides by 60)
getPeakHoursRemaining(t, season) ==
  IF season = Null THEN 0
  ELSE IF CurrentTotalMinutes(t) < DayStartTotalMinutes(season)
       THEN DayEndTotalMinutes(season) - DayStartTotalMinutes(season)
  ELSE IF CurrentTotalMinutes(t) < DayEndTotalMinutes(season)
       THEN DayEndTotalMinutes(season) - CurrentTotalMinutes(t)
  ELSE 0

\* a faulty variant: before dayStart only the morning is counted
getOffpeakHoursRemaining_MorningOnly(t, season) ==
  IF season = Null THEN 0
  ELSE IF CurrentTotalMinutes(t) < DayStartTotalMinutes(season)
       THEN DayStartTotalMinutes(season) - CurrentTotalMinutes(t)
  ELSE IF CurrentTotalMinutes(t) < DayEndTotalMinutes(season)
       THEN 24 * 60 - DayEndTotalMinutes(season)
  ELSE 24 * 60 - CurrentTotalMinutes(t)

\* device.js getOffpeakHoursRemaining, in minutes
getOffpeakHoursRemaining(t, season) ==
  IF season = Null THEN 0
  ELSE LET eveningOffpeak == 24 * 60 - DayEndTotalMinutes(season)
       IN  IF CurrentTotalMinutes(t) < DayStartTotalMinutes(season)
           THEN (DayStartTotalMinutes(season) - CurrentTotalMinutes(t)) + eveningOffpeak
           ELSE IF CurrentTotalMinutes(t) < DayEndTotalMinutes(season)
           THEN eveningOffpeak
           ELSE 24 * 60 - CurrentTotalMinutes(t)

\* device.js getDailyAverageRate, times 24 * 60 (the code divides by it)
getDailyAverageRate(st, season) ==
  IF season = Null THEN 0
  ELSE LET peakMinutes == DayEndTotalMinutes(season) - DayStartTotalMinutes(season)
           offpeakMinutes == 24 * 60 - peakMinutes
       IN  peakMinutes * OrNumber(st.dayRate, DefaultDayRate)
           + offpeakMinutes * OrNumber(st.nightRate, DefaultNightRate)

\* season?.name || 'Unknown'
SeasonName(season) == IF season = Null THEN "Unknown" ELSE season[1].name

----------------------------------------------------------------------------
(* The resolvers of the app *)

\* app.js isDateInSeason
App_isDateInSeason(month, day, season) ==
  IF season.startMonth > season.endMonth
  THEN (month > season.startMonth \/ (month = season.startMonth /\ day >= season.startDay))
       \/ (month < season.endMonth \/ (month = season.endMonth /\ day <= season.endDay))
  ELSE (month > season.startMonth \/ (month = season.startMonth /\ day >= season.startDay))
       /\ (month < season.endMonth \/ (month = season.endMonth /\ day <= season.endDay))

RECURSIVE App_SeasonLoop(_, _, _, _)
App_SeasonLoop(month, day, seasons, i) ==
  IF i > Len(seasons) THEN Null
  ELSE IF App_isDateInSeason(month, day, seasons[i]) THEN <<seasons[i]>>
  ELSE App_SeasonLoop(month, day, seasons, i + 1)

\* app.js getCurrentSeason
App_getCurrentSeason(t, st) ==
  LET seasons == SeasonsOf(st)
      found == App_SeasonLoop(MonthOf(t), DateOf(t), seasons, 1)
  IN  IF found # Null THEN found
      ELSE IF seasons # <<>> THEN <<seasons[1]>>
      ELSE Null

\* a faulty variant: the window of the app's resolver includes dayEnd
App_getCurrentTariff_InclusiveEnd(t, st) ==
  LET season == App_getCurrentSeason(t, st)
  IN  IF season = Null THEN "day"
      ELSE LET currentTime == ClockString(HoursOf(t), MinutesOf(t))
               dayStart == OrString(season[1].dayStart, DefaultDayStart)
               dayEnd == OrString(season[1].dayEnd, DefaultDayEnd)
           IN  IF StrGeq(currentTime, dayStart) /\ ~StrLess(dayEnd, currentTime)
               THEN "day"
               ELSE "night"

\* app.js getCurrentTariff
App_getCurrentTariff(t, st) ==
  LET season == App_getCurrentSeason(t, st)
  IN  IF season = Null THEN "day"
      ELSE LET currentTime == ClockString(HoursOf(t), MinutesOf(t))
               dayStart == OrString(season[1].dayStart, DefaultDayStart)
               dayEnd == OrString(season[1].dayEnd, DefaultDayEnd)
           IN  IF StrGeq(currentTime, dayStart) /\ StrLess(currentTime, dayEnd)
               THEN "day"
               ELSE "night"

\* app.js getCurrentRate
App_getCurrentRate(t, st) ==
  IF App_getCurrentTariff(t, st) = "day" THEN OrNumber(st.dayRate, DefaultDayRate)
  ELSE OrNumber(st.nightRate, DefaultNightRate)

----------------------------------------------------------------------------
(* The meter device: tariff refresh *)

NullTariff == "null"

\* a faulty variant: every refresh counts as a tariff change
trackTariffChanges_CountsEvery(dev, tariff, t, st) ==
  [tariffChangesToday |-> (IF dev.lastResetDate # DateString(t) THEN 0
                           ELSE dev.tariffChangesToday) + 1,
   lastResetDate |-> DateString(t),
   lastTariff |-> tariff,
   events |-> IF dev.lastTariff # NullTariff /\ dev.lastTariff # tariff
              THEN <<[previous_tariff |-> dev.lastTariff, new_tariff |-> tariff,
                      rate |-> getCurrentRate(st, tariff), at |-> t, from |-> "device"]>>
              ELSE <<>>]

\* device.js trackTariffChanges: the fields it leaves and the events it triggers
trackTariffChanges(dev, tariff, t, st) ==
  LET todayString == DateString(t)
      newDay == dev.lastResetDate # todayString
      count == IF newDay THEN 0 ELSE dev.tariffChangesToday
      changed == dev.lastTariff # NullTariff /\ dev.lastTariff # tariff
  IN  [tariffChangesToday |-> IF changed THEN count + 1 ELSE count,
       lastResetDate |-> IF newDay THEN todayString ELSE dev.lastResetDate,
       lastTariff |-> tariff,
       events |-> IF changed
                  THEN <<[previous_tariff |-> dev.lastTariff, new_tariff |-> tariff,
                          rate |-> getCurrentRate(st, tariff), at |-> t, from |-> "device"]>>
                  ELSE <<>>]

\* the fields of the device trackTariffChanges reads
Dev == [lastTariff |-> lastTariff, tariffChangesToday |-> tariffChangesToday,
        lastResetDate |-> lastResetDate]

\* the capabilities updateTariffValues and updateCostTracking write, in the
\* order of the writes
TariffWrites ==
  <<"tariff_type", "measure_price", "season_name", "minutes_until_change",
    "peak_hours_today", "offpeak_hours_today", "daily_avg_rate", "tariff_changes_today">>
CostWrites ==
  <<"measure_power", "measure_power_total", "cost_per_hour", "cost_today",
    "cost_month_estimate">>

\* a faulty variant: the first rejected write ends the handler
WriteOutcome_Abort(keys, failing) ==
  LET first == IF \E i \in 1..Len(keys) : keys[i] \in failing
               THEN CHOOSE i \in 1..Len(keys) :
                      /\ keys[i] \in failing
                      /\ \A j \in 1..(i - 1) : keys[j] \notin failing
               ELSE Len(keys) + 1
  IN  [written |-> {keys[i] : i \in 1..(first - 1)}, completed |-> first > Len(keys)]

\* await setCapabilityValue(key, ...).catch(this.error) for each of keys while
\* the writes of the capabilities in failing are rejected: the capabilities
\* that get their value, and whether the handler goes on after the writes
WriteOutcome(keys, failing) ==
  [written |-> {keys[i] : i \in 1..Len(keys)} \ failing, completed |-> TRUE]

\* the capabilities whose writes are rejected: all of them once the device is deleted
Rejected == IF devState = "deleted" THEN DOMAIN caps ELSE changes.failing

\* the capabilities after the writes of keys, of which full holds the values
setCapabilityValues(full, keys) ==
  LET outcome == WriteOutcome(keys, Rejected)
  IN  [k \in DOMAIN caps |-> IF k \in outcome.written THEN full[k] ELSE caps[k]]

\* the values of the eight capability writes of updateTariffValues under st
TariffCaps(st, changesToday) ==
  LET season == getCurrentSeason(now, st)
      tariff == getCurrentTariff(now, season)
  IN  [caps EXCEPT
         !.tariff_type = <<tariff>>,
         !.measure_price = <<getCurrentRate(st, tariff)>>,
         !.season_name = <<SeasonName(season)>>,
         !.minutes_until_change = <<getMinutesUntilChange(now, season, tariff)>>,
         !.peak_hours_today = <<getPeakHoursRemaining(now, season)>>,
         !.offpeak_hours_today = <<getOffpeakHoursRemaining(now, season)>>,
         !.daily_avg_rate = <<getDailyAverageRate(st, season)>>,
         !.tariff_changes_today = <<changesToday>>]

\* device.js updateTariffValues under settings st, from the device fields dev:
\* the synchronous part, then the eight capability writes
updateTariffValues(dev, st) ==
  LET season == getCurrentSeason(now, st)
      tariff == getCurrentTariff(now, season)
      tracked == trackTariffChanges(dev, tariff, now, st)
  IN  /\ tariffChangesToday' = tracked.tariffChangesToday
      /\ lastResetDate' = tracked.lastResetDate
      /\ lastTariff' = tracked.lastTariff
      /\ tariffEvents' = tariffEvents \o tracked.events
      /\ caps' = setCapabilityValues(TariffCaps(st, tracked.tariffChangesToday), TariffWrites)

\* the number of tariff-changed events a refresh under st triggers
RefreshEvents(st) ==
  Len(trackTariffChanges(Dev, getCurrentTariff(now, getCurrentSeason(now, st)), now, st).events)

----------------------------------------------------------------------------
(* The meter device: cost integration *)

\* app.js getPowerDevices
getPowerDevices == powerDevices

\* a faulty variant: the devices are read whether or not the API is ready
getDevicesWithPower_Unguarded == getPowerDevices

\* device.js getDevicesWithPower
getDevicesWithPower == IF apiReady THEN getPowerDevices ELSE <<>>

\* a faulty variant: the sum of all powers
RECURSIVE TotalPower_All(_)
TotalPower_All(devs) ==
  IF devs = <<>> THEN 0 ELSE devs[1].power + TotalPower_All(Tail(devs))

\* the loop of updateCostTracking: the sum of the powers > 0
RECURSIVE TotalPower(_)
TotalPower(devs) ==
  IF devs = <<>> THEN 0
  ELSE (IF devs[1].power > 0 THEN devs[1].power ELSE 0) + TotalPower(Tail(devs))

\* devs.filter(d => d.power > 0)
RECURSIVE FilterPositive(_)
FilterPositive(devs) ==
  IF devs = <<>> THEN <<>>
  ELSE (IF devs[1].power > 0 THEN <<devs[1]>> ELSE <<>>) \o FilterPositive(Tail(devs))

\* insert d into a list sorted by (a, b) => b.power - a.power, after its equals
RECURSIVE InsertByPower(_, _)
InsertByPower(d, sorted) ==
  IF sorted = <<>> THEN <<d>>
  ELSE IF sorted[1].power >= d.power THEN <<sorted[1]>> \o InsertByPower(d, Tail(sorted))
  ELSE <<d>> \o sorted

\* a faulty variant: the list is left in the order of the registry
SortByPower_Unsorted(devs) == devs

\* devs.sort((a, b) => b.power - a.power): stable, descending by power
RECURSIVE SortByPower(_)
SortByPower(devs) ==
  IF devs = <<>> THEN <<>>
  ELSE InsertByPower(devs[Len(devs)], SortByPower(SubSeq(devs, 1, Len(devs) - 1)))

\* the last day of the month of t
DaysInMonthOf(t) == DaysInMonth[MonthOf(t)]

\* the monthly estimate, unevaluated: it stands for
\* (cost / (minutesToday / 60)) * 24 * daysInMonth, and for 0 when minutesToday = 0
MonthEstimate(t, cost) ==
  [costToday |-> IF CurrentTotalMinutes(t) > 0 THEN cost ELSE 0,
   minutesToday |-> CurrentTotalMinutes(t),
   daysInMonth |-> DaysInMonthOf(t)]

\* a faulty variant: the daily cost is reset on every update
CostBase_AlwaysReset(todayString) == 0

\* the daily cost an update at day todayString starts from (device.js 82-87)
CostBase(todayString) == IF lastResetDate # todayString THEN 0 ELSE costToday

\* a faulty variant: lastCostUpdate is not moved to now
updateCostTracking_KeepsLastUpdate(t, st) ==
  LET timeDelta == t - lastCostUpdate
      currentRate == getCurrentRate(st, getCurrentTariff(t, getCurrentSeason(t, st)))
      devs == getDevicesWithPower
      totalPower == TotalPower(devs)
      costIncrement == totalPower * timeDelta * currentRate
      todayString == DateString(t)
      cost == CostBase(todayString) + costIncrement
  IN  [costToday |-> cost,
       lastResetDate |-> todayString,
       lastCostUpdate |-> lastCostUpdate,
       devicePowers |-> SortByPower(FilterPositive(devs)),
       locals |-> [powerDevices |-> devs,
                   timeDelta |-> timeDelta,
                   totalPower |-> totalPower,
                   currentRate |-> currentRate,
                   costPerHour |-> totalPower * currentRate,
                   monthEstimate |-> MonthEstimate(t, cost),
                   costIncrement |-> costIncrement]]

\* device.js updateCostTracking, lines 61-100: the fields it leaves and its locals
updateCostTracking(t, st) ==
  LET timeDelta == t - lastCostUpdate
      currentRate == getCurrentRate(st, getCurrentTariff(t, getCurrentSeason(t, st)))
      devs == getDevicesWithPower
      totalPower == TotalPower(devs)
      costIncrement == totalPower * timeDelta * currentRate
      todayString == DateString(t)
      cost == CostBase(todayString) + costIncrement
  IN  [costToday |-> cost,
       lastResetDate |-> todayString,
       lastCostUpdate |-> t,
       devicePowers |-> SortByPower(FilterPositive(devs)),
       locals |-> [powerDevices |-> devs,
                   timeDelta |-> timeDelta,
                   totalPower |-> totalPower,
                   currentRate |-> currentRate,
                   costPerHour |-> totalPower * currentRate,
                   monthEstimate |-> MonthEstimate(t, cost),
                   costIncrement |-> costIncrement]]

NoLocals ==
  [powerDevices |-> <<>>, timeDelta |-> 0, totalPower |-> 0, currentRate |-> 0, costPerHour |-> 0,
   monthEstimate |-> [costToday |-> 0, minutesToday |-> 0, daysInMonth |-> 0],
   costIncrement |-> 0]

maxEntries == 1440

\* a faulty variant: slice(0, maxEntries), the first maxEntries samples are kept
recordHistory_KeepOldest(h, t, totalPower, costPerHour, cost) ==
  LET pushed == Append(h, [t |-> t, power |-> totalPower, costH |-> costPerHour, costDay |-> cost])
  IN  IF Len(pushed) > maxEntries THEN SubSeq(pushed, 1, maxEntries) ELSE pushed

\* app.js recordHistory
recordHistory(h, t, totalPower, costPerHour, cost) ==
  LET pushed == Append(h, [t |-> t, power |-> totalPower, costH |-> costPerHour, costDay |-> cost])
  IN  IF Len(pushed) > maxEntries
      THEN SubSeq(pushed, Len(pushed) - maxEntries + 1, Len(pushed))
      ELSE pushed

\* Array.prototype.slice(0, end)
Slice(list, end) ==
  SubSeq(list, 1, IF end < 0 THEN Len(list) + end
                  ELSE IF end > Len(list) THEN Len(list) ELSE end)

\* device.js getTopConsumers
getTopConsumers(limit) == Slice(devicePowers, limit)

\* total_power of the cost-per-hour event: devicePowers.reduce(...)
RECURSIVE SumPower(_)
SumPower(devs) == IF devs = <<>> THEN 0 ELSE devs[1].power + SumPower(Tail(devs))

\* one high-power event per entry of devicePowers
RECURSIVE HighPowerEvents(_, _)
HighPowerEvents(devs, currentRate) ==
  IF devs = <<>> THEN <<>>
  ELSE <<[kind |-> "high-power-device", device_name |-> devs[1].name, power |-> devs[1].power,
          cost_per_hour |-> devs[1].power * currentRate]>>
       \o HighPowerEvents(Tail(devs), currentRate)

\* device.js checkAlerts: the events it triggers, in order
checkAlerts(costPerHour, cost, currentRate) ==
  (IF costPerHour > 0
   THEN <<[kind |-> "cost-threshold-exceeded", cost_per_hour |-> costPerHour,
           total_power |-> SumPower(devicePowers), threshold |-> costPerHour]>>
   ELSE <<>>)
  \o (IF cost > 0
      THEN <<[kind |-> "daily-cost-exceeded", cost_today |-> cost, threshold |-> cost]>>
      ELSE <<>>)
  \o HighPowerEvents(devicePowers, currentRate)

----------------------------------------------------------------------------
(* Bounds and the values the environment draws from *)

MaxAdvances == 3          \* clock steps of a run
MaxChanges == 1           \* settings writes and power-change callbacks of a run
StepMinutes == 60         \* minutes per clock step
MaxTariffEvents == 3      \* tariff-changed events a run may collect

Season(name, sm, sd, em, ed, dayStart, dayEnd) ==
  [name |-> name, startMonth |-> sm, startDay |-> sd, endMonth |-> em, endDay |-> ed,
   dayStart |-> dayStart, dayEnd |-> dayEnd]

\* the defaults app.js initializeSettings stores
DefaultSeasons ==
  <<Season("Winter", 11, 1, 3, 31, ClockString(6, 0), ClockString(22, 0)),
    Season("Summer", 4, 1, 10, 31, ClockString(7, 0), ClockString(23, 0))>>

\* one season for the whole year with a day window from 00:30 to 23:00
LongDaySeasons == <<Season("Year", 1, 1, 12, 31, ClockString(0, 30), ClockString(23, 0))>>

DefaultSettings ==
  [dayRate |-> <<DefaultDayRate>>, nightRate |-> <<DefaultNightRate>>,
   seasons |-> <<DefaultSeasons>>, currency |-> "EUR"]

SettingChoices == {<<"seasons", <<DefaultSeasons>>>>, <<"seasons", <<LongDaySeasons>>>>}

\* the devices api.devices.getDevices() returns: value is
\* capabilitiesObj.measure_power.value, <<>> when it is missing
RegistryDevices ==
  <<[id |-> "a", name |-> "Boiler", capabilities |-> {"onoff", "measure_power"}, value |-> <<500>>],
    [id |-> "b", name |-> "Heater", capabilities |-> {"measure_power", "meter_power"}, value |-> <<2000>>],
    [id |-> "c", name |-> "Solar", capabilities |-> {"measure_power"}, value |-> <<0 - 3000>>],
    [id |-> "d", name |-> "Lamp", capabilities |-> {"onoff"}, value |-> <<>>]>>

\* the loop of initHomeyAPI: the entries of powerDevices, in insertion order
RECURSIVE PowerDevicesOf(_)
PowerDevicesOf(devices) ==
  IF devices = <<>> THEN <<>>
  ELSE (IF "measure_power" \in devices[1].capabilities
        THEN <<[id |-> devices[1].id, name |-> devices[1].name,
                power |-> OrNumber(devices[1].value, 0)]>>
        ELSE <<>>)
       \o PowerDevicesOf(Tail(devices))

\* the values a power-change callback brings
PowerValues == {0, 500}

StartTime == TimeAt(3, 31, 22, 30)

NoCaps ==
  [tariff_type |-> Null, measure_price |-> Null, season_name |-> Null,
   minutes_until_change |-> Null, peak_hours_today |-> Null, offpeak_hours_today |-> Null,
   daily_avg_rate |-> Null, tariff_changes_today |-> Null, measure_power |-> Null,
   measure_power_total |-> Null, cost_per_hour |-> Null, cost_today |-> Null,
   cost_month_estimate |-> Null]

\* a putSettings body: per key <<>> when the key is undefined, else <<value>>
NoBody == [currency |-> <<>>, dayRate |-> <<>>, nightRate |-> <<>>, seasons |-> <<>>]

\* the state with the app initialised and the meter device constructed but not
\* yet initialised; devices is what getDevices has returned to initHomeyAPI
\* (<<>> while it is in flight), samples the history the app holds (<<>> once
\* ElectricityTariffApp.onInit has returned, the samples of an earlier meter
\* device later on)
InitWith(t, st, devices, samples) ==
  /\ now = t
  /\ settings = st
  /\ apiReady = (devices # <<>>)
  /\ apiRetry = (IF devices = <<>> THEN <<0>> ELSE <<>>)
  /\ powerDevices = PowerDevicesOf(devices)
  /\ currentTariff = App_getCurrentTariff(t, st)
  /\ tariffCheckInterval = TRUE
  /\ history = samples
  /\ devState = "constructed"
  /\ lastTariff = NullTariff
  /\ tariffChangesToday = 0
  /\ lastResetDate = DateString(t)
  /\ costToday = 0
  /\ lastCostUpdate = t
  /\ devicePowers = <<>>
  /\ updateInterval = FALSE
  /\ caps = NoCaps
  /\ tickPc = "idle"
  /\ tickLocals = NoLocals
  /\ initPc = "none"
  /\ initLocals = NoLocals
  /\ tariffEvents = <<>>
  /\ emitted = <<>>
  /\ appendLog = samples
  /\ changes = [advances |-> 0, env |-> 0, tickAt |-> t, monitorAt |-> t, transitions |-> 0,
                puts |-> 0, body |-> NoBody, registry |-> devices, failing |-> {},
                initAt |-> t, integrated |-> <<>>, failedAt |-> <<>>]

InitAt(t, st) == InitWith(t, st, <<>>, <<>>)

LongDaySettings == [DefaultSettings EXCEPT !.seasons = <<LongDaySeasons>>]

Init == InitAt(StartTime, LongDaySettings)

appVars == <<apiReady, apiRetry, powerDevices, currentTariff, tariffCheckInterval>>
costVars == <<costToday, lastCostUpdate, devicePowers>>
tariffVars == <<lastTariff, tariffChangesToday, tariffEvents>>
procVars == <<tickPc, tickLocals, initPc, initLocals>>
sinkVars == <<history, appendLog, emitted>>

----------------------------------------------------------------------------
(* The meter device's handlers *)

\* device.js onInit
OnInit ==
  /\ devState = "constructed"
  /\ devState' = "running"
  /\ costToday' = 0
  /\ lastCostUpdate' = now
  /\ devicePowers' = <<>>
  /\ updateTariffValues([lastTariff |-> NullTariff, tariffChangesToday |-> 0,
                         lastResetDate |-> DateString(now)], settings)
  /\ updateInterval' = TRUE
  /\ initPc' = "pending"
  /\ changes' = [changes EXCEPT !.tickAt = now, !.initAt = now]
  /\ UNCHANGED <<now, settings, appVars, sinkVars, tickPc, tickLocals, initLocals>>

\* the interval callback, first await: updateTariffValues (the interval is 60 s,
\* so the 10 s timeout of onInit has fired before; its cost tick may still be
\* at one of its awaits)
TickRefresh ==
  /\ updateInterval
  /\ tickPc = "idle"
  /\ initPc # "pending"
  /\ now > changes.tickAt
  /\ Len(tariffEvents) + RefreshEvents(settings) <= MaxTariffEvents
  /\ updateTariffValues(Dev, settings)
  /\ tickPc' = "refreshed"
  /\ changes' = [changes EXCEPT !.tickAt = now]
  /\ UNCHANGED <<now, settings, appVars, sinkVars, costVars, devState, updateInterval,
                 tickLocals, initPc, initLocals>>

\* updateCostTracking up to its first await, for the caller's locals
CostSync(locals) ==
  LET r == updateCostTracking(now, settings)
  IN  /\ costToday' = r.costToday
      /\ lastResetDate' = r.lastResetDate
      /\ lastCostUpdate' = r.lastCostUpdate
      /\ devicePowers' = r.devicePowers
      /\ locals' = r.locals
      /\ changes' = [changes EXCEPT
                       !.integrated = Append(@, <<now - r.locals.timeDelta, now>>)]
      /\ UNCHANGED <<now, settings, appVars, sinkVars, tariffVars, devState,
                     updateInterval, caps>>

\* updateCostTracking from its first await on: the capability writes, the history
\* sample and the alerts
CostCaps(locals) ==
  [caps EXCEPT
     !.measure_power = <<locals.totalPower>>,
     !.measure_power_total = <<locals.totalPower>>,
     !.cost_per_hour = <<locals.costPerHour>>,
     !.cost_today = <<costToday>>,
     !.cost_month_estimate = <<locals.monthEstimate>>]

CostFinish(locals) ==
  /\ caps' = setCapabilityValues(CostCaps(locals), CostWrites)
  /\ IF WriteOutcome(CostWrites, Rejected).completed
     THEN /\ history' = recordHistory(history, now, locals.totalPower, locals.costPerHour,
                                      costToday)
          /\ appendLog' = Append(appendLog, [t |-> now, power |-> locals.totalPower,
                                             costH |-> locals.costPerHour,
                                             costDay |-> costToday])
          /\ emitted' = checkAlerts(locals.costPerHour, costToday, locals.currentRate)
     ELSE UNCHANGED sinkVars
  /\ UNCHANGED <<now, settings, appVars, costVars, tariffVars, lastResetDate, devState,
                 updateInterval, changes>>

\* the interval callback, second await: updateCostTracking
TickCost ==
  /\ tickPc = "refreshed"
  /\ tickPc' = "costed"
  /\ CostSync(tickLocals)
  /\ UNCHANGED <<initPc, initLocals>>

TickFinish ==
  /\ tickPc = "costed"
  /\ tickPc' = "idle"
  /\ CostFinish(tickLocals)
  /\ UNCHANGED <<tickLocals, initPc, initLocals>>

\* the 10 s timeout of onInit, with the API ready
InitialCost ==
  /\ initPc = "pending"
  /\ apiReady
  /\ initPc' = "costed"
  /\ CostSync(initLocals)
  /\ UNCHANGED <<tickPc, tickLocals>>

\* the 10 s timeout of onInit, with the API not ready
InitialSkip ==
  /\ initPc = "pending"
  /\ ~apiReady
  /\ initPc' = "done"
  /\ UNCHANGED <<now, settings, appVars, sinkVars, costVars, tariffVars, lastResetDate,
                 devState, updateInterval, caps, changes, tickPc, tickLocals, initLocals>>

InitialFinish ==
  /\ initPc = "costed"
  /\ initPc' = "done"
  /\ CostFinish(initLocals)
  /\ UNCHANGED <<tickPc, tickLocals, initLocals>>

\* updateCostTracking when it throws before line 89 (the resolvers of line 63 on
\* a seasons entry that is not an object, stored while the refresh was at one of
\* its awaits): the catch block logs and no field is written
CostThrows ==
  /\ changes' = [changes EXCEPT !.failedAt = <<now>>]
  /\ UNCHANGED <<now, settings, appVars, sinkVars, costVars, tariffVars, lastResetDate,
                 devState, updateInterval, caps, tickLocals, initLocals>>

\* the interval callback, second await, with updateCostTracking throwing
TickCostThrows ==
  /\ tickPc = "refreshed"
  /\ tickPc' = "idle"
  /\ CostThrows
  /\ UNCHANGED initPc

\* the 10 s timeout of onInit, with the API ready and updateCostTracking throwing
InitialCostThrows ==
  /\ initPc = "pending"
  /\ apiReady
  /\ initPc' = "done"
  /\ CostThrows
  /\ UNCHANGED tickPc

\* 1 when the resolved tariff at time t under st differs from the current one
Transition(t, st) ==
  IF App_getCurrentTariff(t, st) # App_getCurrentTariff(now, settings) THEN 1 ELSE 0

\* homey.settings.set(key, value) and the device's 'set' listener
ListenedKeys == {"dayRate", "nightRate", "seasons", "currency"}
SettingsAfter(key, value) ==
  IF key \in DOMAIN settings THEN [settings EXCEPT ![key] = value] ELSE settings

SettingsSet(key, value) ==
  /\ changes.env < MaxChanges
  /\ settings' = SettingsAfter(key, value)
  /\ changes' = [changes EXCEPT !.env = @ + 1,
                                !.transitions = @ + Transition(now, settings')]
  /\ IF devState # "constructed" /\ key \in ListenedKeys
     THEN /\ Len(tariffEvents) + RefreshEvents(settings') <= MaxTariffEvents
          /\ updateTariffValues(Dev, settings')
     ELSE UNCHANGED <<tariffVars, lastResetDate, caps>>
  /\ UNCHANGED <<now, appVars, sinkVars, costVars, devState, updateInterval, procVars>>

\* api.js getSettings
getSettings(st) ==
  [currency |-> IF st.currency = "" THEN "EUR" ELSE st.currency,
   dayRate |-> OrNumber(st.dayRate, DefaultDayRate),
   nightRate |-> OrNumber(st.nightRate, DefaultNightRate),
   seasons |-> SeasonsOf(st)]

\* the keys putSettings looks at, in the order it writes them
BodyKeys == <<"currency", "dayRate", "nightRate", "seasons">>

\* the settings once putSettings has gone through the first n keys of body
Written(st, body, n) ==
  [st EXCEPT !.currency = IF n >= 1 /\ body.currency # <<>> THEN body.currency[1] ELSE @,
             !.dayRate = IF n >= 2 /\ body.dayRate # <<>> THEN body.dayRate[1] ELSE @,
             !.nightRate = IF n >= 3 /\ body.nightRate # <<>> THEN body.nightRate[1] ELSE @,
             !.seasons = IF n >= 4 /\ body.seasons # <<>> THEN body.seasons[1] ELSE @]

\* the device fields and the tariff-changed events once the 'set' listener has
\* run for each of the first n keys of body that putSettings writes
RECURSIVE ListenerChain(_, _, _)
ListenerChain(st, body, n) ==
  IF n = 0 THEN [dev |-> Dev, events |-> <<>>]
  ELSE LET before == ListenerChain(st, body, n - 1)
       IN  IF body[BodyKeys[n]] = <<>> \/ BodyKeys[n] \notin ListenedKeys THEN before
           ELSE LET sti == Written(st, body, n)
                    tracked == trackTariffChanges(before.dev,
                                 getCurrentTariff(now, getCurrentSeason(now, sti)), now, sti)
                IN  [dev |-> [lastTariff |-> tracked.lastTariff,
                              tariffChangesToday |-> tracked.tariffChangesToday,
                              lastResetDate |-> tracked.lastResetDate],
                     events |-> before.events \o tracked.events]

\* api.js putSettings, with the 'set' listener of the device run at each write
PutSettings(body) ==
  /\ changes.env < MaxChanges
  /\ settings' = Written(settings, body, Len(BodyKeys))
  /\ changes' = [changes EXCEPT !.env = @ + 1, !.puts = @ + 1, !.body = body,
                                !.transitions = @ + Transition(now, settings')]
  /\ IF devState # "constructed" /\ body # NoBody
     THEN LET chain == ListenerChain(settings, body, Len(BodyKeys))
          IN  /\ Len(tariffEvents) + Len(chain.events) <= MaxTariffEvents
              /\ lastTariff' = chain.dev.lastTariff
              /\ tariffChangesToday' = chain.dev.tariffChangesToday
              /\ lastResetDate' = chain.dev.lastResetDate
              /\ tariffEvents' = tariffEvents \o chain.events
              /\ caps' = setCapabilityValues(TariffCaps(settings', chain.dev.tariffChangesToday),
                                             TariffWrites)
     ELSE UNCHANGED <<tariffVars, lastResetDate, caps>>
  /\ UNCHANGED <<now, appVars, sinkVars, costVars, devState, updateInterval, procVars>>

\* device.js onDeleted
OnDeleted ==
  /\ devState = "running"
  /\ devState' = "deleted"
  /\ updateInterval' = FALSE
  /\ UNCHANGED <<now, settings, appVars, sinkVars, costVars, tariffVars, lastResetDate,
                 caps, procVars, changes>>

----------------------------------------------------------------------------
(* The app's handlers and the environment *)

\* the delay of the setTimeout of initHomeyAPI
RetryDelay == 30000

\* a faulty variant: no retry is scheduled
RetryAfter_Never(devices) == <<>>

\* the timers initHomeyAPI sets: one retry when there are no devices or it throws
RetryAfter(devices) == IF devices = <<>> THEN <<RetryDelay>> ELSE <<>>

\* app.js initHomeyAPI: the first call or a retry, with what getDevices returns
\* (no devices, as when it throws: powerDevices is emptied and a retry is set)
InitHomeyAPI(devices) ==
  /\ apiRetry # <<>>
  /\ powerDevices' = PowerDevicesOf(devices)
  /\ apiReady' = (apiReady \/ devices # <<>>)
  /\ apiRetry' = Tail(apiRetry) \o RetryAfter(devices)
  /\ UNCHANGED <<now, settings, currentTariff, tariffCheckInterval, sinkVars, costVars,
                 tariffVars, lastResetDate, devState, updateInterval, caps, procVars, changes>>

\* app.js initHomeyAPI when it throws in its loop after n of the devices (in
\* makeCapabilityInstance): the devices before stay in powerDevices, apiReady
\* is not set and the catch block sets the retry
InitHomeyAPIThrows(devices, n) ==
  /\ apiRetry # <<>>
  /\ n < Len(devices)
  /\ powerDevices' = PowerDevicesOf(SubSeq(devices, 1, n))
  /\ apiRetry' = Tail(apiRetry) \o <<RetryDelay>>
  /\ UNCHANGED <<now, settings, apiReady, currentTariff, tariffCheckInterval, sinkVars,
                 costVars, tariffVars, lastResetDate, devState, updateInterval, caps,
                 procVars, changes>>

\* the capability instance's callback of device i: value || 0
PowerChange(i, value) ==
  /\ apiReady
  /\ changes.env < MaxChanges
  /\ i \in 1..Len(powerDevices)
  /\ powerDevices[i].power # value
  /\ powerDevices' = [powerDevices EXCEPT ![i].power = value]
  /\ changes' = [changes EXCEPT !.env = @ + 1]
  /\ UNCHANGED <<now, settings, apiReady, apiRetry, currentTariff, tariffCheckInterval,
                 sinkVars, costVars, tariffVars, lastResetDate, devState, updateInterval,
                 caps, procVars>>

\* app.js startTariffMonitor: the interval callback
TariffMonitorTick ==
  /\ tariffCheckInterval
  /\ now > changes.monitorAt
  /\ LET newTariff == App_getCurrentTariff(now, settings)
     IN  IF currentTariff # newTariff
         THEN /\ Len(tariffEvents) < MaxTariffEvents
              /\ tariffEvents' = Append(tariffEvents,
                   [previous_tariff |-> currentTariff, new_tariff |-> newTariff,
                    rate |-> App_getCurrentRate(now, settings), at |-> now, from |-> "app"])
              /\ currentTariff' = newTariff
         ELSE /\ UNCHANGED <<tariffEvents, currentTariff>>
  /\ changes' = [changes EXCEPT !.monitorAt = now]
  /\ UNCHANGED <<now, settings, apiReady, apiRetry, powerDevices, tariffCheckInterval,
                 sinkVars, costVars, lastTariff, tariffChangesToday, lastResetDate,
                 devState, updateInterval, caps, procVars>>

\* app.js onUninit
OnUninit ==
  /\ tariffCheckInterval
  /\ tariffCheckInterval' = FALSE
  /\ UNCHANGED <<now, settings, apiReady, apiRetry, powerDevices, currentTariff, sinkVars,
                 costVars, tariffVars, lastResetDate, devState, updateInterval, caps,
                 procVars, changes>>

\* the clock moves on by one step; both 60 s interval timers, where set, have
\* fired since the last step
Advance ==
  /\ changes.advances < MaxAdvances
  /\ devState # "constructed"
  /\ updateInterval => changes.tickAt = now
  /\ now' = now + StepMinutes
  /\ changes' = [changes EXCEPT !.advances = @ + 1,
                                !.transitions = @ + Transition(now', settings)]
  /\ UNCHANGED <<settings, appVars, sinkVars, costVars, tariffVars, lastResetDate,
                 devState, updateInterval, caps, procVars>>

\* the number of devices initHomeyAPI gets through before it throws
ThrowsAfter == 2

Next ==
  \/ OnInit
  \/ TickRefresh
  \/ TickCost
  \/ TickFinish
  \/ InitialCost
  \/ InitialSkip
  \/ InitialFinish
  \/ \E c \in SettingChoices : SettingsSet(c[1], c[2])
  \/ \E devices \in {<<>>, RegistryDevices} : InitHomeyAPI(devices)
  \/ InitHomeyAPIThrows(RegistryDevices, ThrowsAfter)
  \/ \E v \in PowerValues : PowerChange(1, v)
  \/ Advance

Spec == Init /\ [][Next]_vars

----------------------------------------------------------------------------
(* The engine together with the app's tariff monitor *)

AdvanceMonitored ==
  /\ tariffCheckInterval => changes.monitorAt = now
  /\ Advance

NextMonitor ==
  \/ OnInit
  \/ TickRefresh
  \/ TickCost
  \/ TickFinish
  \/ InitialSkip
  \/ \E c \in SettingChoices : SettingsSet(c[1], c[2])
  \/ TariffMonitorTick
  \/ AdvanceMonitored

SpecMonitor == Init /\ [][NextMonitor]_vars

----------------------------------------------------------------------------
(* The season resolver over the calendar: the device is initialised on any day
   of the year under any of the season lists *)

\* <<startMonth, startDay, endMonth, endDay>>
SeasonRanges ==
  {<<11, 1, 3, 31>>, <<4, 1, 10, 31>>, <<12, 15, 1, 15>>, <<6, 1, 6, 15>>,
   <<6, 15, 6, 1>>, <<1, 1, 12, 31>>}

NamedSeason(name, r) == Season(name, r[1], r[2], r[3], r[4], DefaultDayStart, DefaultDayEnd)

SeasonLists ==
  {<<>>} \cup {<<NamedSeason("first", a)>> : a \in SeasonRanges}
         \cup {<<NamedSeason("first", a), NamedSeason("second", b)>> : a, b \in SeasonRanges}

\* the seasons setting unset, or set to one of the lists
SeasonSettings ==
  {[DefaultSettings EXCEPT !.seasons = o] : o \in {Null} \cup {<<l>> : l \in SeasonLists}}

InitSeason ==
  \E m \in 1..12 : \E d \in 1..DaysInMonth[m] : \E st \in SeasonSettings :
    InitAt(TimeAt(m, d, 12, 0), st)

NextSeason == OnInit

SpecSeason == InitSeason /\ [][NextSeason]_vars

----------------------------------------------------------------------------
(* The tariff resolver over the day: the device is initialised at any minute of
   a day under a season with any of the day windows *)

\* dayStart and dayEnd: missing, zero-padded, and "7:30"
WindowStrings ==
  {Null, ClockString(0, 0), ClockString(6, 0), ClockString(22, 0), ClockString(23, 59),
   StringOf(7) \o <<ColonChar>> \o StringOf(30)}

WindowSettings ==
  {[DefaultSettings EXCEPT !.seasons = Null]}
  \cup {[DefaultSettings EXCEPT !.seasons = <<<<Season("Year", 1, 1, 12, 31, ds, de)>>>>] :
          ds \in WindowStrings, de \in WindowStrings}

InitTariff ==
  \E hh \in 0..23 : \E mm \in 0..59 : \E st \in WindowSettings :
    InitAt(TimeAt(6, 15, hh, mm), st)

NextTariff == OnInit

SpecTariff == InitTariff /\ [][NextTariff]_vars

----------------------------------------------------------------------------
(* The history buffer: the meter device is initialised in an app whose history
   holds the samples an earlier meter device has recorded, one per minute, with
   no power to integrate *)

PriorSamples(n, t) ==
  [i \in 1..n |-> [t |-> t - (n - i + 1), power |-> 0, costH |-> 0, costDay |-> 0]]

PriorCounts == {0, maxEntries - 2, maxEntries - 1, maxEntries}

InitHistory ==
  \E n \in PriorCounts :
    InitWith(StartTime, LongDaySettings, RegistryDevices, PriorSamples(n, StartTime))

NextHistory ==
  \/ OnInit
  \/ InitialCost
  \/ InitialFinish
  \/ TickRefresh
  \/ TickCost
  \/ TickFinish
  \/ Advance

SpecHistory == InitHistory /\ [][NextHistory]_vars

----------------------------------------------------------------------------
(* The start of the app: initHomeyAPI and its retries against a device registry
   that has no devices, or fails, until some moment *)

\* the registry starts or stops returning devices
RegistryChange ==
  /\ changes.env < MaxChanges
  /\ changes' = [changes EXCEPT !.env = @ + 1,
                                !.registry = IF @ = <<>> THEN RegistryDevices ELSE <<>>]
  /\ UNCHANGED <<now, settings, appVars, sinkVars, costVars, tariffVars, lastResetDate,
                 devState, updateInterval, caps, procVars>>

\* the pending call of initHomeyAPI runs and gets the registry's answer
RetryHomeyAPI == InitHomeyAPI(changes.registry)

NextBootstrap ==
  \/ OnInit
  \/ InitialCost
  \/ InitialSkip
  \/ InitialFinish
  \/ TickRefresh
  \/ TickCost
  \/ TickFinish
  \/ RetryHomeyAPI
  \/ RegistryChange
  \/ Advance

\* a timer that is set fires
SpecBootstrap == Init /\ [][NextBootstrap]_vars /\ WF_vars(RetryHomeyAPI)

----------------------------------------------------------------------------
(* Rejected capability writes: setCapabilityValue fails for some capabilities
   while the meter device refreshes and integrates *)

FaultSets == {{"tariff_type"}, {"measure_power"}, {"cost_per_hour"}}

\* the writes of the capabilities in S start to be rejected, or writes succeed again
WriteFault(S) ==
  /\ changes.env < MaxChanges
  /\ changes' = [changes EXCEPT !.env = @ + 1, !.failing = IF @ = {} THEN S ELSE {}]
  /\ UNCHANGED <<now, settings, appVars, sinkVars, costVars, tariffVars, lastResetDate,
                 devState, updateInterval, caps, procVars>>

NextFaults ==
  \/ OnInit
  \/ InitialCost
  \/ InitialSkip
  \/ InitialFinish
  \/ TickRefresh
  \/ TickCost
  \/ TickFinish
  \/ \E devices \in {<<>>, RegistryDevices} : InitHomeyAPI(devices)
  \/ \E S \in FaultSets : WriteFault(S)
  \/ Advance

SpecFaults == Init /\ [][NextFaults]_vars

----------------------------------------------------------------------------
(* The end of the meter device and of the app: onDeleted and onUninit among the
   timers and listeners the two have set. Once the app is uninitialised its
   process ends, and nothing of it runs. *)

\* a handler of the app's process runs while the app is initialised
Live(Handler) == tariffCheckInterval /\ Handler

NextTeardown ==
  \/ Live(OnInit)
  \/ Live(InitialCost)
  \/ Live(InitialSkip)
  \/ Live(InitialFinish)
  \/ Live(TickRefresh)
  \/ Live(TickCost)
  \/ Live(TickFinish)
  \/ Live(\E c \in SettingChoices : SettingsSet(c[1], c[2]))
  \/ Live(InitHomeyAPI(RegistryDevices))
  \/ Live(TariffMonitorTick)
  \/ Live(AdvanceMonitored)
  \/ Live(OnDeleted)
  \/ OnUninit

SpecTeardown == Init /\ [][NextTeardown]_vars

----------------------------------------------------------------------------
(* Repeated refreshes: a setting is written again with the value it has, right
   after a refresh, so that the listener refreshes at the same clock value and
   under the same settings *)

RefreshSettings ==
  {DefaultSettings, LongDaySettings, [DefaultSettings EXCEPT !.seasons = Null]}

InitRefresh ==
  \E hh \in {5, 6, 21, 22, 23} : \E mm \in {0, 30} : \E st \in RefreshSettings :
    InitAt(TimeAt(3, 31, hh, mm), st)

\* homey.settings.set(key, the value key has) when a refresh has just run
SettingsRewrite(key) ==
  /\ devState = "running"
  /\ changes.tickAt = now
  /\ SettingsSet(key, settings[key])

NextRefresh ==
  \/ OnInit
  \/ InitialSkip
  \/ TickRefresh
  \/ TickCost
  \/ TickFinish
  \/ \E key \in ListenedKeys : SettingsRewrite(key)
  \/ Advance

SpecRefresh == InitRefresh /\ [][NextRefresh]_vars

----------------------------------------------------------------------------
(* The settings endpoints: partial updates through putSettings while the meter
   device refreshes and integrates *)

\* the rates a body brings: null, 0 and two prices
RateWrites == {<<>>, <<Null>>, <<<<0>>>>, <<<<200>>>>}

SettingsBodies ==
  {[currency |-> c, dayRate |-> d, nightRate |-> n, seasons |-> s] :
     c \in {<<>>, <<"BGN">>}, d \in RateWrites, n \in {<<>>, <<<<0>>>>, <<<<90>>>>},
     s \in {<<>>, <<<<DefaultSeasons>>>>}}

InitSettings == \E hh \in {12, 22} : InitAt(TimeAt(3, 31, hh, 30), LongDaySettings)

NextSettings ==
  \/ OnInit
  \/ InitialSkip
  \/ TickRefresh
  \/ TickCost
  \/ TickFinish
  \/ \E body \in SettingsBodies : PutSettings(body)
  \/ Advance

SpecSettings == InitSettings /\ [][NextSettings]_vars

----------------------------------------------------------------------------
(* Properties of the cost accumulator and of the tariff-change events *)

CostUnitsPerCurrency == 1000 * 60 * 1000

\* the steps in which updateCostTracking runs up to its first await
TickCostStep == tickPc = "refreshed" /\ tickPc' = "costed"
InitialCostStep == initPc = "pending" /\ initPc' = "costed"
CostStep == TickCostStep \/ InitialCostStep

\* the steps in which updateTariffValues runs
RefreshStep ==
  \/ tickPc = "idle" /\ tickPc' = "refreshed"
  \/ devState = "constructed" /\ devState' = "running"
  \/ devState # "constructed" /\ settings' # settings

\* the sum of the powers of the devices of devs at the indices in S
RECURSIVE PowerOver(_, _)
PowerOver(devs, S) ==
  IF S = {} THEN 0
  ELSE LET i == CHOOSE j \in S : TRUE IN devs[i].power + PowerOver(devs, S \ {i})

\* the device snapshot a cost tick reads, and the sum of its strictly positive powers
Snapshot == IF apiReady THEN powerDevices ELSE <<>>
PositivePower == PowerOver(Snapshot, {i \in 1..Len(Snapshot) : Snapshot[i].power > 0})

\* the rate of the tariff resolved now
RateNow == getCurrentRate(settings, getCurrentTariff(now, getCurrentSeason(now, settings)))

\* the tariff-changed events of the device that reached the sink on a day
DeviceTransitions(events, day) ==
  Cardinality({i \in 1..Len(events) : events[i].from = "device" /\ DateString(events[i].at) = day})

(* C1: on the periodic tick (tariff refresh, then cost integration, both on the
   same calendar day) that is the first whose calendar day differs from the day
   of the previous cost tick, costToday after the tick is exactly that tick's
   costIncrement: the previous day's cost is discarded. *)
C1_DayRolloverReset ==
  [][(TickCostStep /\ changes.tickAt = now /\ DateString(now) # DateString(lastCostUpdate))
       => costToday' = tickLocals'.costIncrement]_vars

(* C2: a cost tick on the calendar day of the previous cost tick never lowers
   costToday (rates are non-negative, the clock does not go back, and powers
   that are not positive are left out of the sum). *)
C2_MonotoneWithinDay ==
  [][(CostStep /\ DateString(now) = DateString(lastCostUpdate))
       => costToday' >= costToday]_vars

\* a periodic cost tick has added a positive increment to a positive costToday
\* of the same day
C2_Witness ==
  /\ tickPc = "costed"
  /\ tickLocals.costIncrement > 0
  /\ costToday > tickLocals.costIncrement
  /\ DateString(lastCostUpdate - tickLocals.timeDelta) = DateString(lastCostUpdate)

(* C3: every transition of the resolved tariff brings exactly one tariff-changed
   event to the event sink, so the sink never holds more events than the
   resolved tariff has made transitions. *)
C3_OneEventPerTransition == Len(tariffEvents) <= changes.transitions

(* C4: after every tariff refresh tariffChangesToday is the number of tariff
   transitions the refreshes detected on the current calendar day. *)
C4_ChangesCountedToday ==
  [][RefreshStep => tariffChangesToday' = DeviceTransitions(tariffEvents', DateString(now))]_vars

----------------------------------------------------------------------------
(* Properties of the season and tariff resolvers *)

\* (m1, d1) <= (m2, d2) in lexicographic order
PairLeq(m1, d1, m2, d2) == m1 < m2 \/ (m1 = m2 /\ d1 <= d2)

\* membership of (month, day) in a season
InSeason(month, day, s) ==
  IF s.startMonth <= s.endMonth
  THEN PairLeq(s.startMonth, s.startDay, month, day) /\ PairLeq(month, day, s.endMonth, s.endDay)
  ELSE PairLeq(s.startMonth, s.startDay, month, day) \/ PairLeq(month, day, s.endMonth, s.endDay)

NovToMar == NamedSeason("first", <<11, 1, 3, 31>>)
WholeYear == NamedSeason("second", <<1, 1, 12, 31>>)

(* C5: for the date of the clock and every configured season, isDateInSeason of
   the device and of the app is true exactly when the date lies between the
   season's start and end in lexicographic order (start <= date <= end when
   startMonth <= endMonth, date >= start or date <= end otherwise); for Nov 1 -
   Mar 31, Dec 25 and Mar 31 match, Apr 1 and Jul 4 do not; and with the whole
   year as second season an initialised device shows the first season exactly
   on the dates that lie in it. *)
C5_SeasonMembership ==
  LET month == MonthOf(now)
      day == DateOf(now)
      seasons == SeasonsOf(settings)
  IN  /\ \A i \in 1..Len(seasons) :
           /\ isDateInSeason(month, day, seasons[i]) = InSeason(month, day, seasons[i])
           /\ App_isDateInSeason(month, day, seasons[i]) = InSeason(month, day, seasons[i])
      /\ <<month, day>> \in {<<12, 25>>, <<3, 31>>}
           => isDateInSeason(month, day, NovToMar) /\ App_isDateInSeason(month, day, NovToMar)
      /\ <<month, day>> \in {<<4, 1>>, <<7, 4>>}
           => ~isDateInSeason(month, day, NovToMar) /\ ~App_isDateInSeason(month, day, NovToMar)
      /\ (devState = "running" /\ Len(seasons) = 2 /\ seasons[2] = WholeYear)
           => (caps.season_name = <<"first">>) = InSeason(month, day, seasons[1])

C5_Witness ==
  /\ devState = "running"
  /\ MonthOf(now) = 12 /\ DateOf(now) = 25
  /\ SeasonsOf(settings) = <<NovToMar, WholeYear>>
  /\ caps.season_name = <<"first">>

\* the indices of the seasons whose membership predicate matches the date of t
Matching(t, seasons) ==
  {i \in 1..Len(seasons) : isDateInSeason(MonthOf(t), DateOf(t), seasons[i])}

\* the lowest-index matching season, else the first season, else null
Resolved(t, st) ==
  LET seasons == SeasonsOf(st)
      m == Matching(t, seasons)
  IN  IF seasons = <<>> THEN Null
      ELSE IF m = {} THEN <<seasons[1]>>
      ELSE <<seasons[CHOOSE i \in m : \A j \in m : i <= j]>>

(* C6: getCurrentSeason of the device and of the app returns the lowest-index
   season whose membership predicate matches the date, the first season when
   none matches, and null when the list is empty or unset; an initialised device
   shows that season's name, and with null the tariff 'day'. *)
C6_SeasonResolution ==
  /\ getCurrentSeason(now, settings) = Resolved(now, settings)
  /\ App_getCurrentSeason(now, settings) = Resolved(now, settings)
  /\ devState = "running" =>
       /\ caps.season_name =
            <<IF Resolved(now, settings) = Null THEN "Unknown"
              ELSE Resolved(now, settings)[1].name>>
       /\ Resolved(now, settings) = Null => caps.tariff_type = <<"day">>

\* no season matches and the first one is shown
C6_Witness ==
  /\ devState = "running"
  /\ Len(SeasonsOf(settings)) = 2
  /\ Matching(now, SeasonsOf(settings)) = {}
  /\ caps.season_name = <<"first">>

\* a zero-padded "HH:MM" string
Padded(s) == Len(s) = 5 /\ s[3] = ColonChar

\* the day window of the configured season, in minutes of the day
WindowStart(st) == TotalMinutes(OrString(SeasonsOf(st)[1].dayStart, DefaultDayStart))
WindowEnd(st) == TotalMinutes(OrString(SeasonsOf(st)[1].dayEnd, DefaultDayEnd))
PaddedWindow(st) ==
  /\ SeasonsOf(st) # <<>>
  /\ Padded(OrString(SeasonsOf(st)[1].dayStart, DefaultDayStart))
  /\ Padded(OrString(SeasonsOf(st)[1].dayEnd, DefaultDayEnd))

(* C7: for a season with zero-padded dayStart < dayEnd (missing ones count as
   06:00 and 22:00) the tariff resolved by the device and by the app, and the one
   an initialised device shows, is 'day' exactly when dayStart <= now < dayEnd
   and 'night' otherwise: day at dayStart and one minute before dayEnd, night
   at dayEnd. *)
C7_TariffWindow ==
  (PaddedWindow(settings) /\ WindowStart(settings) < WindowEnd(settings)) =>
    LET inWindow == /\ WindowStart(settings) <= CurrentTotalMinutes(now)
                    /\ CurrentTotalMinutes(now) < WindowEnd(settings)
        expected == IF inWindow THEN "day" ELSE "night"
    IN  /\ getCurrentTariff(now, getCurrentSeason(now, settings)) = expected
        /\ App_getCurrentTariff(now, settings) = expected
        /\ devState = "running" => caps.tariff_type = <<expected>>
        /\ CurrentTotalMinutes(now) = WindowStart(settings) => expected = "day"
        /\ CurrentTotalMinutes(now) = WindowEnd(settings) - 1 => expected = "day"
        /\ CurrentTotalMinutes(now) = WindowEnd(settings) => expected = "night"

\* with dayStart and dayEnd missing, 22:00 shows night
C7_Witness ==
  /\ devState = "running"
  /\ SeasonsOf(settings) # <<>>
  /\ SeasonsOf(settings)[1].dayStart = Null /\ SeasonsOf(settings)[1].dayEnd = Null
  /\ CurrentTotalMinutes(now) = 22 * 60
  /\ caps.tariff_type = <<"night">>

(* C8: for every season with zero-padded dayStart and dayEnd (dayEnd <= dayStart
   and dayStart = 00:00 included) and for no season at all, the
   minutes_until_change an initialised device shows is in [0, 1440), and it is 1
   one minute before dayStart and one minute before dayEnd when the tariff
   changes there. *)
C8_MinutesUntilChangeRange ==
  (devState = "running" /\ (SeasonsOf(settings) = <<>> \/ PaddedWindow(settings))) =>
    /\ caps.minutes_until_change[1] \in 0..(24 * 60 - 1)
    /\ (/\ SeasonsOf(settings) # <<>>
        /\ App_getCurrentTariff(now + 1, settings) # App_getCurrentTariff(now, settings))
         => caps.minutes_until_change[1] = 1

----------------------------------------------------------------------------
(* Properties of the history buffer *)

(* C9: the history holds at most 1440 samples, and they are the most recent
   min(n, 1440) of the n samples appended so far, in append order and
   unmodified; after 1441 appends the first sample is gone and samples 2..1441
   remain in order. *)
C9_HistoryFifo ==
  LET n == Len(appendLog)
      k == IF n < 1440 THEN n ELSE 1440
  IN  /\ Len(history) <= 1440
      /\ history = SubSeq(appendLog, n - k + 1, n)
      /\ n = 1441 => /\ history = SubSeq(appendLog, 2, 1441)
                     /\ \A i \in 1..Len(history) : history[i] # appendLog[1]

C9_Witness ==
  /\ Len(appendLog) = 1441
  /\ Len(history) = 1440
  /\ history[1] = appendLog[2]
  /\ history[1440] = appendLog[1441]

----------------------------------------------------------------------------
(* Properties of the cost integration step *)

(* C10 as stated: every cost tick adds (totalPower / 1000) * hours since
   lastCostUpdate * rate to costToday. *)
C10_AddsIncrement ==
  [][CostStep => costToday' = costToday + PositivePower * (now - lastCostUpdate) * RateNow]_vars

(* C10, amended: every cost tick at time t leaves costToday at its start value
   plus (totalPower / 1000) * hours since lastCostUpdate * rate, where the start
   value is 0 when the tick is the first update to see a new calendar day and
   the old costToday otherwise, totalPower is the sum of the strictly positive
   powers of the snapshot read at t and rate is the rate of the tariff resolved
   at t; lastCostUpdate becomes t; 2000 W over one hour at 0.12 adds 0.24. *)
C10_CostIntegrationStep ==
  [][CostStep =>
       /\ costToday' = (IF lastResetDate # DateString(now) THEN 0 ELSE costToday)
                       + PositivePower * (now - lastCostUpdate) * RateNow
       /\ lastCostUpdate' = now
       /\ (PositivePower = 2000 /\ now - lastCostUpdate = 60 /\ RateNow = 120)
             => 100 * (costToday' - (IF lastResetDate # DateString(now) THEN 0 ELSE costToday))
                  = 24 * CostUnitsPerCurrency]_vars

\* a periodic cost tick has integrated 2000 W over one hour at the day rate 0.12
C10_Witness ==
  /\ tickPc = "costed"
  /\ tickLocals.totalPower = 2000
  /\ tickLocals.timeDelta = 60
  /\ tickLocals.currentRate = 120
  /\ 100 * tickLocals.costIncrement = 24 * CostUnitsPerCurrency
  /\ costToday >= tickLocals.costIncrement

----------------------------------------------------------------------------
(* Properties of the configured rates and of the settings endpoints *)

\* the rate configured for a tariff: the stored number when there is one that
\* is not negative, else the documented default
ConfiguredRate(st, tariff) ==
  LET stored == IF tariff = "day" THEN st.dayRate ELSE st.nightRate
      default == IF tariff = "day" THEN DefaultDayRate ELSE DefaultNightRate
  IN  IF stored # Null /\ stored[1] >= 0 THEN stored[1] ELSE default

(* C11: the rate applied to a tariff is the configured dayRate (day) or
   nightRate (night) whenever a rate >= 0 is configured, and the default only
   when none is: the price the device shows after a refresh, the rate the app
   resolves and the rates getSettings returns all equal the configured rate. *)
C11_ConfiguredRateApplied ==
  /\ caps.measure_price # <<>> =>
       caps.measure_price[1] = ConfiguredRate(settings, caps.tariff_type[1])
  /\ App_getCurrentRate(now, settings) =
       ConfiguredRate(settings, App_getCurrentTariff(now, settings))
  /\ getSettings(settings).dayRate = ConfiguredRate(settings, "day")
  /\ getSettings(settings).nightRate = ConfiguredRate(settings, "night")

\* the step of a putSettings call; its body is changes'.body
PutStep == changes'.puts = changes.puts + 1

(* C12: putSettings writes exactly the keys among currency, dayRate, nightRate
   and seasons that its body has and leaves the other keys as they were, and a
   getSettings that follows returns the written value for each key the body
   has and the prior (or default) value for each key it has not. *)
C12_PutThenGet ==
  [][PutStep =>
       LET body == changes'.body
           got == getSettings(settings')
       IN  /\ \A k \in DOMAIN body :
                settings'[k] = (IF body[k] # <<>> THEN body[k][1] ELSE settings[k])
           /\ got.currency = (IF body.currency # <<>> THEN body.currency[1]
                              ELSE getSettings(settings).currency)
           /\ got.seasons = (IF body.seasons # <<>> THEN body.seasons[1][1]
                             ELSE getSettings(settings).seasons)
           /\ body.dayRate = <<>> => got.dayRate = getSettings(settings).dayRate
           /\ body.nightRate = <<>> => got.nightRate = getSettings(settings).nightRate
           /\ (body.dayRate # <<>> /\ body.dayRate[1] # Null) =>
                got.dayRate = body.dayRate[1][1]
           /\ (body.nightRate # <<>> /\ body.nightRate[1] # Null) =>
                got.nightRate = body.nightRate[1][1]]_vars

(* C13: whenever a call of initHomeyAPI gets zero devices or fails, apiReady
   stays false and exactly one retry is pending, set 30 s ahead, however many
   calls have failed before; a call that gets devices sets apiReady and leaves
   no retry; and if from some point on the registry returns at least one
   device, apiReady eventually becomes true and stays true with no retry
   pending. *)
C13_RetryUntilReady ==
  /\ [][(apiRetry # <<>> /\ apiRetry' # apiRetry /\ changes.registry = <<>>) =>
          (~apiReady' /\ apiRetry' = <<RetryDelay>>)]_vars
  /\ [][(apiRetry # <<>> /\ apiRetry' # apiRetry /\ changes.registry # <<>>) =>
          (apiReady' /\ apiRetry' = <<>>)]_vars
  /\ [](~apiReady => Len(apiRetry) = 1)
  /\ [](apiReady => apiRetry = <<>>)
  /\ (<>[](changes.registry # <<>>)) => <>[](apiReady /\ apiRetry = <<>>)

\* the first call has got no devices and its retry is pending while the
\* registry has started to return devices
C13_Witness ==
  /\ ~apiReady
  /\ apiRetry = <<RetryDelay>>
  /\ changes.registry = RegistryDevices
  /\ devState = "running"

----------------------------------------------------------------------------
(* Properties of the handlers when capability writes are rejected *)

\* the steps in which a cost tick goes from its capability writes to its end
TickFinishStep == tickPc = "costed" /\ tickPc' = "idle"
InitialFinishStep == initPc = "costed" /\ initPc' = "done"

\* the locals of the cost tick that finishes in the step
FinishLocals == IF TickFinishStep THEN tickLocals ELSE initLocals

\* of the capabilities keys, those whose writes succeed get their values of
\* full in the step and the others keep their values
WritesAttempted(keys, full) ==
  \A i \in 1..Len(keys) :
    caps'[keys[i]] = (IF keys[i] \in changes.failing THEN caps[keys[i]] ELSE full[keys[i]])

(* C14: when writes of a capability are rejected during a tariff refresh or a
   cost tick, the handler still makes every other write (each capability whose
   write succeeds gets its value), the cost tick still appends its history
   sample and evaluates the alerts, and the fields of the engine (the tariff
   change tracking of the refresh; costToday, lastCostUpdate and devicePowers
   of the tick) are what they are when every write succeeds. *)
C14_WriteFailureIsolated ==
  /\ [][(tickPc = "idle" /\ tickPc' = "refreshed") =>
          LET tracked == trackTariffChanges(Dev,
                           getCurrentTariff(now, getCurrentSeason(now, settings)), now, settings)
          IN  /\ WritesAttempted(TariffWrites, TariffCaps(settings, tracked.tariffChangesToday))
              /\ lastTariff' = tracked.lastTariff
              /\ tariffChangesToday' = tracked.tariffChangesToday
              /\ lastResetDate' = tracked.lastResetDate
              /\ tariffEvents' = tariffEvents \o tracked.events]_vars
  /\ [][(TickFinishStep \/ InitialFinishStep) =>
          /\ WritesAttempted(CostWrites, CostCaps(FinishLocals))
          /\ appendLog' = Append(appendLog, [t |-> now, power |-> FinishLocals.totalPower,
                                             costH |-> FinishLocals.costPerHour,
                                             costDay |-> costToday])
          /\ history' = recordHistory(history, now, FinishLocals.totalPower,
                                      FinishLocals.costPerHour, costToday)
          /\ emitted' = checkAlerts(FinishLocals.costPerHour, costToday,
                                    FinishLocals.currentRate)
          /\ UNCHANGED <<costVars, lastResetDate>>]_vars

\* a cost tick with devices drawing power has finished while the writes of
\* measure_power were rejected: the later writes, the sample and the alerts are there
C14_Witness ==
  /\ changes.failing = {"measure_power"}
  /\ caps.measure_power = Null
  /\ caps.cost_month_estimate # Null
  /\ tickPc = "idle"
  /\ tickLocals.totalPower > 0
  /\ Len(appendLog) = 1
  /\ emitted # <<>>

----------------------------------------------------------------------------
(* Properties of onDeleted and onUninit *)

(* C15: after onDeleted none of the device's timers and subscriptions (the
   periodic tick, the delayed initial cost tick, the settings-change listener)
   runs any more: the tariff tracking, the cost fields, the tariff-changed
   events, the history and the alerts of the device stay as they are; and
   after onUninit the tariff monitor runs no more: the app's current tariff
   stays as it is. *)
C15_NothingRunsAfterTeardown ==
  /\ [][devState = "deleted" =>
          UNCHANGED <<lastTariff, tariffChangesToday, lastResetDate, costVars, sinkVars>>]_vars
  /\ [][devState = "deleted" =>
          \A i \in 1..Len(tariffEvents') : i > Len(tariffEvents) => tariffEvents'[i].from = "app"]_vars
  /\ [][~tariffCheckInterval => UNCHANGED <<currentTariff, tariffEvents>>]_vars

----------------------------------------------------------------------------
(* Properties of the alerts and of the device list of a cost tick *)

\* the events of a kind among events
OfKind(events, kind) == {i \in 1..Len(events) : events[i].kind = kind}

\* the step in which a cost tick completes
FinishStep == TickFinishStep \/ InitialFinishStep

(* C16: on every completed cost tick one cost-per-hour event is emitted exactly
   when the tick's costPerHour is > 0 and one daily-cost event exactly when
   costToday is > 0, whatever the previous tick emitted, and the total_power of
   the cost-per-hour event is the totalPower the tick computed. *)
C16_CostAlerts ==
  [][FinishStep =>
       LET perHour == OfKind(emitted', "cost-threshold-exceeded")
           daily == OfKind(emitted', "daily-cost-exceeded")
       IN  /\ Cardinality(perHour) = (IF FinishLocals.costPerHour > 0 THEN 1 ELSE 0)
           /\ Cardinality(daily) = (IF costToday > 0 THEN 1 ELSE 0)
           /\ \A i \in perHour :
                /\ emitted'[i].cost_per_hour = FinishLocals.costPerHour
                /\ emitted'[i].total_power = FinishLocals.totalPower
           /\ \A i \in daily : emitted'[i].cost_today = costToday]_vars

\* the devices of a tick's snapshot that draw power
Drawing(devs) == {i \in 1..Len(devs) : devs[i].power > 0}

(* C17: on every completed cost tick there is exactly one high-power event for
   each device whose power in the tick's snapshot is > 0 and none for the
   others, and each event carries the device's name, its power and
   (power / 1000) * the tick's rate as cost_per_hour. *)
C17_HighPowerEvents ==
  [][FinishStep =>
       LET devs == FinishLocals.powerDevices
           high == OfKind(emitted', "high-power-device")
       IN  /\ \A d \in Drawing(devs) :
                Cardinality({i \in high : /\ emitted'[i].device_name = devs[d].name
                                          /\ emitted'[i].power = devs[d].power
                                          /\ emitted'[i].cost_per_hour =
                                               devs[d].power * FinishLocals.currentRate}) = 1
           /\ Cardinality(high) = Cardinality(Drawing(devs))]_vars

\* the limits getTopConsumers is asked with
MaxLimit == 4

(* C20: after every cost tick devicePowers holds exactly the devices of the
   tick's snapshot whose power is > 0, in order of non-increasing power, and
   their powers add up to the tick's totalPower; getTopConsumers(limit)
   returns the first min(limit, length) of them. *)
C20_DevicePowers ==
  /\ [][CostStep =>
          LET devs == getDevicesWithPower
              locals == IF TickCostStep THEN tickLocals' ELSE initLocals'
          IN  /\ Len(devicePowers') = Cardinality(Drawing(devs))
              /\ \A d \in Drawing(devs) :
                   \E i \in 1..Len(devicePowers') : devicePowers'[i] = devs[d]
              /\ \A i \in 1..(Len(devicePowers') - 1) :
                   devicePowers'[i].power >= devicePowers'[i + 1].power
              /\ SumPower(devicePowers') = locals.totalPower]_vars
  /\ [](\A limit \in 0..MaxLimit :
          LET n == IF limit < Len(devicePowers) THEN limit ELSE Len(devicePowers)
          IN  getTopConsumers(limit) = [i \in 1..n |-> devicePowers[i]])

\* a cost tick has found Boiler (500 W) before Heater (2000 W) in the registry
\* and Solar at -3000 W: the list is Heater, Boiler, and the top consumer Heater
C20_Witness ==
  /\ tickPc = "costed"
  /\ Len(tickLocals.powerDevices) = 3
  /\ Len(devicePowers) = 2
  /\ devicePowers[1].name = "Heater"
  /\ devicePowers[2].name = "Boiler"
  /\ Len(getTopConsumers(1)) = 1
  /\ getTopConsumers(1)[1].power = 2000
  /\ getTopConsumers(MaxLimit) = devicePowers

----------------------------------------------------------------------------
(* Properties of the refresh that a settings change starts *)

\* the step of a settings write the running device listens to, between two ticks
SettingsRefreshStep ==
  /\ devState = "running"
  /\ tickPc = "idle" /\ initPc = "done"
  /\ settings' # settings

(* C18: the refresh that a settings change starts leaves costToday,
   lastCostUpdate and the reset date the cost accumulator compares against
   (lastResetDate) unchanged, and appends no history sample. *)
C18_SettingsRefreshFrame ==
  [][SettingsRefreshStep =>
       UNCHANGED <<costToday, lastCostUpdate, lastResetDate, history, appendLog>>]_vars

----------------------------------------------------------------------------
(* Properties of the cost tick while the API is not ready *)

(* C19: while apiReady is false every cost tick sees an empty device set: its
   totalPower and costPerHour are 0, it does not increase costToday, it emits
   no cost-per-hour, daily-cost or high-power event, and it still completes:
   it sets lastCostUpdate to its time, writes its capabilities and appends its
   history sample. *)
C19_TickWhileNotReady ==
  /\ [][(CostStep /\ ~apiReady) =>
          LET locals == IF TickCostStep THEN tickLocals' ELSE initLocals'
          IN  /\ locals.powerDevices = <<>>
              /\ locals.totalPower = 0
              /\ locals.costPerHour = 0
              /\ costToday' <= costToday
              /\ devicePowers' = <<>>
              /\ lastCostUpdate' = now]_vars
  /\ [][(FinishStep /\ ~apiReady) =>
          /\ emitted' = <<>>
          /\ caps'.measure_power = <<0>>
          /\ caps'.cost_per_hour = <<0>>
          /\ Len(appendLog') = Len(appendLog) + 1
          /\ appendLog'[Len(appendLog')].power = 0]_vars

\* a periodic cost tick has completed an hour after onInit while initHomeyAPI
\* had thrown after two devices: powerDevices is not empty, apiReady is false
C19_Witness ==
  /\ ~apiReady
  /\ powerDevices # <<>>
  /\ tickPc = "idle"
  /\ lastCostUpdate = StartTime + StepMinutes
  /\ Len(appendLog) = 1
  /\ caps.measure_power = <<0>>
  /\ emitted = <<>>

----------------------------------------------------------------------------
(* Properties of a repeated refresh *)

\* the step of a settings write that leaves the settings as they are
RewriteStep == changes'.env = changes.env + 1 /\ settings' = settings /\ devState = "running"

(* C21: a tariff refresh that runs right after another one, at the same clock
   value and under the same settings, yields the same season, tariff, rate and
   minutes until change as the first, emits no tariff-changed event and leaves
   tariffChangesToday and lastTariff unchanged. *)
C21_IdempotentRefresh ==
  [][(RewriteStep /\ changes.tickAt = now) =>
       /\ caps'.season_name = caps.season_name
       /\ caps'.tariff_type = caps.tariff_type
       /\ caps'.measure_price = caps.measure_price
       /\ caps'.minutes_until_change = caps.minutes_until_change
       /\ caps'.tariff_changes_today = caps.tariff_changes_today
       /\ tariffEvents' = tariffEvents
       /\ tariffChangesToday' = tariffChangesToday
       /\ lastTariff' = lastTariff
       /\ lastResetDate' = lastResetDate]_vars

\* the periodic tick has found the tariff changed from day to night and has
\* emitted one event, and the refresh has run again at the same minute
C21_Witness ==
  /\ changes.env = 1
  /\ changes.tickAt = now
  /\ changes.advances = 1
  /\ lastTariff = "night"
  /\ Len(tariffEvents) = 1
  /\ tariffEvents[1].at = now
  /\ tariffChangesToday = 1
  /\ caps.tariff_changes_today = <<1>>

----------------------------------------------------------------------------
(* Properties of the remaining peak and off-peak time, in minutes *)

(* C22: for every season with dayStart <= dayEnd and every minute of the day,
   the peak time remaining is the whole window dayEnd - dayStart before
   dayStart, dayEnd - now inside the window and 0 from dayEnd on, and the peak
   and the off-peak time remaining add up to the time left until midnight,
   1440 - now minutes; an initialised device shows these values. *)
C22_PeakOffpeakRemaining ==
  LET season == getCurrentSeason(now, settings)
      cur == CurrentTotalMinutes(now)
  IN  (season # Null /\ DayStartTotalMinutes(season) <= DayEndTotalMinutes(season)) =>
        LET dayStart == DayStartTotalMinutes(season)
            dayEnd == DayEndTotalMinutes(season)
            peak == getPeakHoursRemaining(now, season)
            offpeak == getOffpeakHoursRemaining(now, season)
        IN  /\ cur < dayStart => peak = dayEnd - dayStart
            /\ (dayStart <= cur /\ cur < dayEnd) => peak = dayEnd - cur
            /\ cur >= dayEnd => peak = 0
            /\ peak + offpeak = 24 * 60 - cur
            /\ devState = "running" =>
                 /\ caps.peak_hours_today = <<peak>>
                 /\ caps.offpeak_hours_today = <<offpeak>>

\* a device initialised at 05:00 under the window 06:00-22:00 shows 16 h of
\* peak and 3 h of off-peak time remaining
C22_Witness ==
  /\ devState = "running"
  /\ CurrentTotalMinutes(now) = 5 * 60
  /\ getCurrentSeason(now, settings) # Null
  /\ DayStartTotalMinutes(getCurrentSeason(now, settings)) = 6 * 60
  /\ DayEndTotalMinutes(getCurrentSeason(now, settings)) = 22 * 60
  /\ caps.peak_hours_today = <<16 * 60>>
  /\ caps.offpeak_hours_today = <<3 * 60>>

----------------------------------------------------------------------------
(* Properties of the minutes until the next tariff change *)

\* the time k minutes after t, taken modulo the day of t
MinutesLater(t, k) == (t - CurrentTotalMinutes(t)) + ((CurrentTotalMinutes(t) + k) % (24 * 60))

(* C23: for a season with zero-padded dayStart < dayEnd and every minute now,
   with m the minutes until change of the tariff resolved at now, the tariff
   resolved at now + m (mod 1440) differs from the one at now and the tariff
   resolved at every minute now + k with 0 <= k < m equals it; an initialised
   device shows m, and a window 06:00-22:00 at 08:00 gives 840. *)
C23_MinutesUntilChangeAgrees ==
  (PaddedWindow(settings) /\ WindowStart(settings) < WindowEnd(settings)) =>
    LET season == getCurrentSeason(now, settings)
        tariff == getCurrentTariff(now, season)
        m == getMinutesUntilChange(now, season, tariff)
    IN  /\ m >= 1
        /\ getCurrentTariff(MinutesLater(now, m), season) # tariff
        /\ \A k \in 0..(m - 1) : getCurrentTariff(MinutesLater(now, k), season) = tariff
        /\ devState = "running" => caps.minutes_until_change = <<m>>
        /\ (/\ WindowStart(settings) = 6 * 60
            /\ WindowEnd(settings) = 22 * 60
            /\ CurrentTotalMinutes(now) = 8 * 60) => m = 840

\* a device initialised at 08:00 under the window 06:00-22:00 shows 840; one
\* initialised at 23:00 would show 420, past midnight
C23_Witness ==
  /\ devState = "running"
  /\ PaddedWindow(settings)
  /\ WindowStart(settings) = 6 * 60
  /\ WindowEnd(settings) = 22 * 60
  /\ CurrentTotalMinutes(now) = 8 * 60
  /\ caps.tariff_type = <<"day">>
  /\ caps.minutes_until_change = <<840>>
  /\ getMinutesUntilChange(now + 15 * 60, getCurrentSeason(now, settings), "night") = 420

----------------------------------------------------------------------------
(* The resolvers of the app against those of the meter device: the device is
   initialised on the first or last day of any month before the window
   boundaries, under season lists, windows and rates of every shape, and ticks
   as the clock advances *)

\* a season across the year boundary with an unpadded dayStart and no dayEnd,
\* followed by one for the rest of the year
MixedSeasons ==
  <<Season("Cold", 12, 15, 1, 31, StringOf(7) \o <<ColonChar>> \o StringOf(30), Null),
    Season("Warm", 2, 1, 12, 14, ClockString(5, 30), ClockString(21, 30))>>

\* dayRate and nightRate: unset, zero, and set
RatePairs == {<<Null, Null>>, <<<<0>>, <<0>>>>, <<<<250>>, <<100>>>>}

ResolverSettings ==
  {[dayRate |-> r[1], nightRate |-> r[2], seasons |-> l, currency |-> "EUR"] :
     r \in RatePairs,
     l \in {Null, <<<<>>>>, <<DefaultSeasons>>, <<LongDaySeasons>>, <<MixedSeasons>>}}

InitResolvers ==
  \E m \in 1..12 : \E d \in {1, DaysInMonth[m]} :
    \E hh \in {5, 21} : \E mm \in {0, 30} : \E st \in ResolverSettings :
      InitAt(TimeAt(m, d, hh, mm), st)

NextResolvers ==
  \/ OnInit
  \/ InitialSkip
  \/ TickRefresh
  \/ TickCost
  \/ TickFinish
  \/ Advance

SpecResolvers == InitResolvers /\ [][NextResolvers]_vars

\* what the flow cards resolve at the current time: the season's name, the
\* tariff and the rate
FlowSeason == App_getCurrentSeason(now, settings)
FlowTariff == App_getCurrentTariff(now, settings)
FlowRate == App_getCurrentRate(now, settings)

\* the app's resolvers return what the device's return at the current time
ResolversAgree ==
  LET season == getCurrentSeason(now, settings)
      tariff == getCurrentTariff(now, season)
  IN  /\ FlowSeason = season
      /\ FlowTariff = tariff
      /\ FlowRate = getCurrentRate(settings, tariff)

\* the device's capabilities show what the flow cards resolve
CapabilitiesAgree ==
  /\ caps.season_name = <<SeasonName(FlowSeason)>>
  /\ caps.tariff_type = <<FlowTariff>>
  /\ caps.measure_price = <<FlowRate>>

(* C24: for every date, time of day and settings the app's getCurrentSeason,
   getCurrentTariff and getCurrentRate return the season, tariff and rate the
   device's getCurrentSeason, getCurrentTariff(season) and getCurrentRate(tariff)
   return, and every refresh of the device leaves capabilities that agree with
   what the flow cards resolve at that instant. *)
C24_ResolversAgreeAtRefresh ==
  /\ [](ResolversAgree)
  /\ [][RefreshStep => CapabilitiesAgree']_vars

\* on Dec 31 at 22:00 under the default seasons and no rates both resolve
\* Winter, night (dayEnd is excluded) and the default night rate, and the
\* device shows them
C24_Witness ==
  /\ devState = "running"
  /\ now = TimeAt(12, 31, 22, 0)
  /\ settings.seasons = <<DefaultSeasons>>
  /\ settings.nightRate = Null
  /\ FlowSeason = <<DefaultSeasons[1]>>
  /\ FlowTariff = "night"
  /\ FlowRate = DefaultNightRate
  /\ CapabilitiesAgree

(* C24 as stated: the flow condition and the device's capabilities never
   disagree at the same instant. *)
C24_NeverDisagree ==
  /\ ResolversAgree
  /\ devState = "running" => CapabilitiesAgree

----------------------------------------------------------------------------
(* The intervals the cost ticks integrate: the periodic tick, the delayed
   initial cost tick and the settings listener interleave at their awaits, and
   a cost tick may throw before it writes a field *)

InitIntervals ==
  \E devices \in {<<>>, RegistryDevices} :
    InitWith(StartTime, LongDaySettings, devices, <<>>)

NextIntervals ==
  \/ OnInit
  \/ InitialCost
  \/ InitialCostThrows
  \/ InitialSkip
  \/ InitialFinish
  \/ TickRefresh
  \/ TickCost
  \/ TickCostThrows
  \/ TickFinish
  \/ \E c \in SettingChoices : SettingsSet(c[1], c[2])
  \/ Advance

SpecIntervals == InitIntervals /\ [][NextIntervals]_vars

\* the intervals <<from, to>> the cost ticks that reached line 90 have
\* integrated, in the order of the ticks: to is the tick's now and from is
\* now less the timeDelta it used
Integrated == changes.integrated

(* C25: in every interleaving of the periodic tick, the delayed initial cost
   tick, the settings refreshes and cost ticks that throw before writing a
   field, the intervals of the successive successful cost ticks start at the
   initialisation of the meter, each starts where the one before ended, and
   the last ends at lastCostUpdate, the time of the latest successful cost
   tick: no time is integrated twice and none is skipped. *)
C25_IntervalsTile ==
  devState # "constructed" =>
    /\ \A i \in 1..Len(Integrated) : Integrated[i][1] <= Integrated[i][2]
    /\ \A i \in 1..(Len(Integrated) - 1) : Integrated[i + 1][1] = Integrated[i][2]
    /\ IF Integrated = <<>> THEN lastCostUpdate = changes.initAt
       ELSE /\ Integrated[1][1] = changes.initAt
            /\ Integrated[Len(Integrated)][2] = lastCostUpdate
    /\ lastCostUpdate <= now

\* the initial cost tick and a periodic cost tick are both at their awaits, and
\* the periodic one has integrated the interval in which an earlier periodic
\* cost tick threw
C25_Witness ==
  /\ initPc = "costed"
  /\ tickPc = "costed"
  /\ Len(Integrated) >= 2
  /\ changes.failedAt # <<>>
  /\ Integrated[Len(Integrated)][1] < changes.failedAt[1]
  /\ changes.failedAt[1] < Integrated[Len(Integrated)][2]
  /\ Integrated[Len(Integrated)][2] = now

====
